---- MODULE Spec2Model ----
(***************************************************************************)
(* A model of src/extension.ts, the RLS extension for VS Code:             *)
(*   - diagnosticCounter : the build-progress counter and its spinner      *)
(*   - getSysroot / makeRlsEnv : the environment handed to the RLS child   *)
(*   - activate / deactivate / autoUpdate : the sessions of the client     *)
(*   - makeRlsProcess : launch strategies and the observers of the child   *)
(*   - registerCommands : the deglob and find-implementations commands     *)
(* Strings are TLA+ strings where they are only concatenated and compared, *)
(* and sequences of one-character strings where the code edits characters. *)
(* A JavaScript value that may be null/undefined is None or Some(v).       *)
(***************************************************************************)
EXTENDS Integers, Sequences, FiniteSets, TLC

VARIABLES
    \* diagnosticCounter
    handlersRegistered,   \* the onReady().then callback has run (lines 198-209)
    runningDiagnostics,   \* let runningDiagnostics (line 197)
    lastSpinner,          \* the last call made to startSpinner / stopSpinner
    nBegin,               \* history: rustDocument/beginBuild notifications handled
    nEnd,                 \* history: rustDocument/diagnosticsEnd notifications handled
    lastNotification,     \* history: the last notification handled, the counter
                          \* it found and the spinner call its handler made
    \* getSysroot
    spawnSyncResult,      \* what spawnSync gives to the getSysroot call examined
    sysroot,              \* what that call returned, None before it
    \* makeRlsEnv
    processEnv,           \* process.env, the ambient environment of the editor process
    envCalls,             \* history: number of makeRlsEnv calls made
    envCall,              \* history: what the last makeRlsEnv call saw and did
    \* makeRlsProcess
    config,               \* CONFIGURATION (line 26), read-only
    launches,             \* history: number of makeRlsProcess calls made
    spawnLog,             \* history: the launch attempts made, in order
    childProcessPromise,  \* "none", "pending", "resolved" or "rejected"
    returnedPromise,      \* the promise makeRlsProcess returned, same states
    statusBar,            \* the text of the last window.setStatusBarMessage
    errorObserver,        \* the child has the 'error' listener of lines 99-106
    errorEvents,          \* history: what each 'error' event of the child led to
    logStream,            \* "none", "opening", "open" or "ended"
    logListener,          \* stderr has the 'data' listener of lines 112-114
    mirrorListener,       \* stderr has the 'data' listener of lines 122-131
    stderrPipe,           \* chunks the child wrote that stderr has not emitted yet
    emitted,              \* history: every chunk the child wrote to stderr
    chunksWritten,        \* history: the chunks written by all the children
    logFile,              \* what was written to the log stream, in order
    channel,              \* lc.outputChannel: the text appended, the calls of show
    logError,             \* history: the 'error' event of the log stream, if any
    openLogStreams,       \* history: log streams opened and not ended, all children
    \* activate, deactivate and the server options (lines 141-194)
    activation,           \* "inactive", "active" or "deactivated"
    activateWarnings,     \* the warnings activate showed
    lcOutputChannel,      \* let lcOutputChannel (line 145): null or the channel
    sessions,             \* history: number of calls of the server options
    updatePromise,        \* the promise of rustupUpdate(): "none", "pending", ...
    autoUpdatePromise,    \* the promise of autoUpdate(), same states
    updateCalls,          \* history: number of calls of rustupUpdate by autoUpdate
    sessionStart,         \* history: the progress tracker as the last call of the
                          \* server options found it
    channelArg,           \* the lcOutputChannel parameter of makeRlsProcess
    childAlive,           \* the child process exists and has not terminated
    \* registerCommands
    invocations           \* the command invocations made, each with the requests
                          \* it sent, the warnings it showed, the commands it ran

trackerVars == <<handlersRegistered, runningDiagnostics, lastSpinner, nBegin, nEnd,
                 lastNotification>>
sysrootVars == <<spawnSyncResult, sysroot>>
envVars == <<processEnv, envCalls, envCall>>
launchVars == <<config, launches, spawnLog, childProcessPromise, returnedPromise,
                statusBar,
                errorObserver, errorEvents>>
stderrVars == <<logStream, logListener, mirrorListener, stderrPipe, emitted,
                chunksWritten, logFile, channel, logError, openLogStreams>>
activationVars == <<activation, activateWarnings, lcOutputChannel>>
updateVars == <<sessions, updatePromise, autoUpdatePromise, updateCalls, sessionStart>>
childVars == <<channelArg, childAlive>>
sessionVars == <<activationVars, updateVars, childVars>>
cmdVars == <<invocations>>
vars == <<trackerVars, sysrootVars, envVars, launchVars, stderrVars, sessionVars,
          cmdVars>>

-----------------------------------------------------------------------------
(* Bounds of the model.                                                    *)

MaxNotifications == 8    \* notifications of each kind handled in one run
MaxEnvCalls == 2         \* makeRlsEnv calls in one run
MaxLaunches == 2         \* makeRlsProcess calls in one run
MaxErrors == 2           \* 'error' events of one child
MaxChunks == 2           \* chunks the children write to stderr in one run
MaxInvocations == 3      \* command invocations in one run
MaxStdoutLen == 3        \* characters of the output of rustc in a getSysroot call

-----------------------------------------------------------------------------
(* JavaScript values.                                                      *)

None == <<>>
Some(v) == <<v>>
IsSome(m) == m # None
Val(m) == m[1]

\* An object with string keys: a function whose domain is the set of keys
\* that are present. obj[k] of an absent key is undefined.
Has(obj, k) == k \in DOMAIN obj
Get(obj, k) == IF Has(obj, k) THEN Some(obj[k]) ELSE None
Put(obj, k, v) == [n \in DOMAIN obj \cup {k} |-> IF n = k THEN v ELSE obj[n]]
\* The truthiness of obj[k] where the value is a string or undefined.
Truthy(obj, k) == Has(obj, k) /\ obj[k] # ""
\* obj[k] || dflt
OrElse(obj, k, dflt) == IF Truthy(obj, k) THEN obj[k] ELSE dflt

\* String.prototype.replace(c, '') with a string pattern: only the first
\* occurrence of c is removed.
RECURSIVE ReplaceFirst(_, _)
ReplaceFirst(s, c) ==
    IF s = <<>> THEN <<>>
    ELSE IF Head(s) = c THEN Tail(s)
    ELSE <<Head(s)>> \o ReplaceFirst(Tail(s), c)

\* The string made of the characters of s.
RECURSIVE Join(_)
Join(s) == IF s = <<>> THEN "" ELSE Head(s) \o Join(Tail(s))

-----------------------------------------------------------------------------
(* diagnosticCounter (lines 196-210).                                      *)

InitTracker ==
    /\ handlersRegistered = FALSE
    /\ runningDiagnostics = 0
    /\ lastSpinner = [call |-> "none", label |-> ""]
    /\ nBegin = 0
    /\ nEnd = 0
    /\ lastNotification = [kind |-> "none", before |-> 0, spinner |-> None]

\* lc.onReady().then(...): both notification handlers are registered.
OnReady ==
    /\ ~handlersRegistered
    /\ handlersRegistered' = TRUE
    /\ UNCHANGED <<runningDiagnostics, lastSpinner, nBegin, nEnd, lastNotification>>

\* The handler of rustDocument/beginBuild.
BeginBuildHandler(counter) ==
    [counter |-> counter + 1,
     spinner |-> Some([call |-> "startSpinner", label |-> "RLS: working"])]

\* A handler that never lets the counter go below zero.
DiagnosticsEndHandlerClamps(counter) ==
    [counter |-> IF counter - 1 < 0 THEN 0 ELSE counter - 1,
     spinner |-> IF counter - 1 <= 0
                 THEN Some([call |-> "stopSpinner", label |-> "RLS: done"])
                 ELSE None]

\* The handler of rustDocument/diagnosticsEnd.
DiagnosticsEndHandler(counter) ==
    [counter |-> counter - 1,
     spinner |-> IF counter - 1 <= 0
                 THEN Some([call |-> "stopSpinner", label |-> "RLS: done"])
                 ELSE None]

BeginBuild ==
    /\ handlersRegistered
    /\ nBegin < MaxNotifications
    /\ LET r == BeginBuildHandler(runningDiagnostics) IN
        /\ runningDiagnostics' = r.counter
        /\ lastSpinner' = IF IsSome(r.spinner) THEN Val(r.spinner) ELSE lastSpinner
        /\ lastNotification' = [kind |-> "beginBuild", before |-> runningDiagnostics,
                                spinner |-> r.spinner]
    /\ nBegin' = nBegin + 1
    /\ UNCHANGED <<handlersRegistered, nEnd>>

DiagnosticsEnd ==
    /\ handlersRegistered
    /\ nEnd < MaxNotifications
    /\ LET r == DiagnosticsEndHandler(runningDiagnostics) IN
        /\ runningDiagnostics' = r.counter
        /\ lastSpinner' = IF IsSome(r.spinner) THEN Val(r.spinner) ELSE lastSpinner
        /\ lastNotification' = [kind |-> "diagnosticsEnd", before |-> runningDiagnostics,
                                spinner |-> r.spinner]
    /\ nEnd' = nEnd + 1
    /\ UNCHANGED <<handlersRegistered, nBegin>>

\* The busy indicator the editor shows: the effect of the last spinner call.
Busy == lastSpinner.call = "startSpinner"
Idle == ~Busy

-----------------------------------------------------------------------------
(* getSysroot (lines 28-49).                                               *)

\* The result of child_process.spawnSync: error is set when the command
\* could not be started, status is null when it did not exit by itself,
\* stdout is the captured Buffer (a sequence of characters) or null.
SpawnError == [error |-> TRUE, status |-> None, stdout |-> None]
Exited(code, out) == [error |-> FALSE, status |-> Some(code), stdout |-> out]
Signalled(out) == [error |-> FALSE, status |-> None, stdout |-> out]

StdoutSamples ==
    { <<>>,
      <<"/", "r">>,
      <<"/", "r", "\n">>,
      <<"/", "r", "\r", "\n">>,
      <<"/", "r", "\n", "\n">>,
      <<"/", "\n", "r", "\n">> }

ProbeOutcomes ==
    {SpawnError, Exited(1, Some(<<>>)), Exited(1, Some(<<"/", "r", "\n">>)),
     Exited(0, None), Signalled(Some(<<"/", "r", "\n">>))}
    \cup {Exited(0, Some(s)) : s \in StdoutSamples}

IsError(result) == result.tag = "Error"

getSysroot(rustcSysroot) ==
    IF rustcSysroot.error
    THEN [tag |-> "Error", message |-> "Error running rustc"]
    ELSE IF IsSome(rustcSysroot.status) /\ Val(rustcSysroot.status) > 0
    THEN [tag |-> "Error", message |-> "Error getting sysroot from rustc"]
    ELSE IF ~IsSome(rustcSysroot.stdout)
    THEN [tag |-> "Error", message |-> "Could not get sysroot from rustc: Got no ouput"]
    ELSE [tag |-> "string",
          value |-> Join(ReplaceFirst(ReplaceFirst(Val(rustcSysroot.stdout), "\n"), "\r"))]

\* The characters of an output: one that is not a line end, and the two
\* line ends.
SysrootChars == {"/", "\n", "\r"}

\* Every output of at most MaxStdoutLen characters, and no output at all.
Outputs ==
    {None} \cup {Some(s) : s \in UNION {[1..k -> SysrootChars] : k \in 0..MaxStdoutLen}}

\* What spawnSync can give: no start, an exit with status 0 or 1, a signal.
SpawnResults ==
    {SpawnError}
    \cup {Exited(code, out) : code \in {0, 1}, out \in Outputs}
    \cup {Signalled(out) : out \in Outputs}

InitSysroot ==
    /\ spawnSyncResult \in SpawnResults
    /\ sysroot = None

SysrootAtRest ==
    /\ spawnSyncResult = SpawnError
    /\ sysroot = None

\* The call of getSysroot.
GetSysroot ==
    /\ sysroot = None
    /\ sysroot' = Some(getSysroot(spawnSyncResult))
    /\ UNCHANGED spawnSyncResult

-----------------------------------------------------------------------------
(* makeRlsEnv (lines 53-78). env is process.env itself, not a copy, so     *)
(* every assignment to env is an assignment to process.env. o1 and o2 are  *)
(* what spawnSync gives on the first and on the second probe.              *)

SysrootWarning ==
    "RLS could not set RUST_SRC_PATH for Racer because it could not read the Rust sysroot."

CargoBinPath(env) == OrElse(env, "HOME", "~") \o "/.cargo/bin:" \o OrElse(env, "PATH", "")

\* Mutant: the check of line 56 is missing, the probe is always made.
makeRlsEnvAlwaysProbes(env, o1, o2) ==
    LET r1 == getSysroot(o1) IN
    IF ~IsError(r1)
    THEN [env |-> Put(env, "RUST_SRC_PATH", r1.value \o "/lib/rustlib/src/rust/src"),
          probes |-> <<env>>, results |-> <<r1>>, warnings |-> <<>>]
    ELSE
      LET env2 == Put(env, "PATH", CargoBinPath(env))
          r2 == getSysroot(o2)
      IN IF IsError(r2)
         THEN [env |-> env2, probes |-> <<env, env2>>, results |-> <<r1, r2>>,
               warnings |-> <<SysrootWarning>>]
         ELSE [env |-> Put(env2, "RUST_SRC_PATH", r2.value \o "/lib/rustlib/src/rust/src"),
               probes |-> <<env, env2>>, results |-> <<r1, r2>>, warnings |-> <<>>]

\* Mutant: the warning of line 69 is shown after the first failed probe.
makeRlsEnvWarnsEarly(env, o1, o2) ==
    IF Truthy(env, "RUST_SRC_PATH")
    THEN [env |-> env, probes |-> <<>>, results |-> <<>>, warnings |-> <<>>]
    ELSE
      LET r1 == getSysroot(o1) IN
      IF ~IsError(r1)
      THEN [env |-> Put(env, "RUST_SRC_PATH", r1.value \o "/lib/rustlib/src/rust/src"),
            probes |-> <<env>>, results |-> <<r1>>, warnings |-> <<>>]
      ELSE
        LET env2 == Put(env, "PATH", CargoBinPath(env))
            r2 == getSysroot(o2)
        IN IF IsError(r2)
           THEN [env |-> env2, probes |-> <<env, env2>>, results |-> <<r1, r2>>,
                 warnings |-> <<SysrootWarning>>]
           ELSE [env |-> Put(env2, "RUST_SRC_PATH", r2.value \o "/lib/rustlib/src/rust/src"),
                 probes |-> <<env, env2>>, results |-> <<r1, r2>>,
                 warnings |-> <<SysrootWarning>>]

\* Mutant: the retry is made without line 64, with PATH as it was.
makeRlsEnvRetriesSamePath(env, o1, o2) ==
    IF Truthy(env, "RUST_SRC_PATH")
    THEN [env |-> env, probes |-> <<>>, results |-> <<>>, warnings |-> <<>>]
    ELSE
      LET r1 == getSysroot(o1) IN
      IF ~IsError(r1)
      THEN [env |-> Put(env, "RUST_SRC_PATH", r1.value \o "/lib/rustlib/src/rust/src"),
            probes |-> <<env>>, results |-> <<r1>>, warnings |-> <<>>]
      ELSE
        LET r2 == getSysroot(o2)
        IN IF IsError(r2)
           THEN [env |-> env, probes |-> <<env, env>>, results |-> <<r1, r2>>,
                 warnings |-> <<SysrootWarning>>]
           ELSE [env |-> Put(env, "RUST_SRC_PATH", r2.value \o "/lib/rustlib/src/rust/src"),
                 probes |-> <<env, env>>, results |-> <<r1, r2>>, warnings |-> <<>>]

makeRlsEnv(env, o1, o2) ==
    IF Truthy(env, "RUST_SRC_PATH")
    THEN [env |-> env, probes |-> <<>>, results |-> <<>>, warnings |-> <<>>]
    ELSE
      LET r1 == getSysroot(o1) IN
      IF ~IsError(r1)
      THEN [env |-> Put(env, "RUST_SRC_PATH", r1.value \o "/lib/rustlib/src/rust/src"),
            probes |-> <<env>>, results |-> <<r1>>, warnings |-> <<>>]
      ELSE
        LET env2 == Put(env, "PATH", CargoBinPath(env))
            r2 == getSysroot(o2)
        IN IF IsError(r2)
           THEN [env |-> env2, probes |-> <<env, env2>>, results |-> <<r1, r2>>,
                 warnings |-> <<SysrootWarning>>]
           ELSE [env |-> Put(env2, "RUST_SRC_PATH", r2.value \o "/lib/rustlib/src/rust/src"),
                 probes |-> <<env, env2>>, results |-> <<r1, r2>>, warnings |-> <<>>]

\* The ambient environments a run starts from: each of PATH, HOME and
\* RUST_SRC_PATH is absent, empty or set.
EnvValues ==
    [PATH |-> {"", "/usr/bin"}, HOME |-> {"", "/home/u"}, RUST_SRC_PATH |-> {"", "/src"}]

AmbientEnvs ==
    UNION { [ks -> {"", "/usr/bin", "/home/u", "/src"}] :
            ks \in SUBSET {"PATH", "HOME", "RUST_SRC_PATH"} }

NoEnvCall == [made |-> FALSE]

InitEnv ==
    /\ processEnv \in {e \in AmbientEnvs : \A k \in DOMAIN e : e[k] \in EnvValues[k]}
    /\ envCalls = 0
    /\ envCall = NoEnvCall

\* One call of makeRlsEnv.
MakeRlsEnv(o1, o2) ==
    /\ envCalls < MaxEnvCalls
    /\ LET r == makeRlsEnv(processEnv, o1, o2) IN
        /\ processEnv' = r.env
        /\ envCall' = [made |-> TRUE, before |-> processEnv, returned |-> r.env,
                       probes |-> r.probes, results |-> r.results,
                       warnings |-> r.warnings]
    /\ envCalls' = envCalls + 1


-----------------------------------------------------------------------------
(* makeRlsProcess (lines 80-139): the synchronous part.                    *)

\* The truthiness of a configured string that may be null/undefined.
Set(m) == IsSome(m) /\ Val(m) # ""

\* Lines 87-96: the one launch made by a call, from rls_path, rls_root and
\* the environment makeRlsEnv returned. promise is the state of
\* childProcessPromise right after: Promise.resolve(spawn(...)) is resolved,
\* the promise of runRlsViaRustup is pending.
\* Mutant: the tests of lines 87 and 89 are swapped, rls_root comes first.
LaunchRootFirst(rls_path, rls_root, env) ==
    IF Set(rls_root)
    THEN [via |-> "child_process.spawn", command |-> "rustup",
          args |-> <<"run", "nighty", "cargo", "run", "--release">>,
          cwd |-> rls_root, env |-> env, promise |-> "resolved"]
    ELSE IF Set(rls_path)
    THEN [via |-> "child_process.spawn", command |-> Val(rls_path), args |-> <<>>,
          cwd |-> None, env |-> env, promise |-> "resolved"]
    ELSE [via |-> "runRlsViaRustup", command |-> "", args |-> <<>>,
          cwd |-> None, env |-> env, promise |-> "pending"]

Launch(rls_path, rls_root, env) ==
    IF Set(rls_path)
    THEN [via |-> "child_process.spawn", command |-> Val(rls_path), args |-> <<>>,
          cwd |-> None, env |-> env, promise |-> "resolved"]
    ELSE IF Set(rls_root)
    THEN [via |-> "child_process.spawn", command |-> "rustup",
          args |-> <<"run", "nighty", "cargo", "run", "--release">>,
          cwd |-> rls_root, env |-> env, promise |-> "resolved"]
    ELSE [via |-> "runRlsViaRustup", command |-> "", args |-> <<>>,
          cwd |-> None, env |-> env, promise |-> "pending"]

\* No listener, no stream: the state of a child nothing has been attached to.
FreshChild ==
    /\ errorObserver' = FALSE
    /\ errorEvents' = <<>>
    /\ logStream' = "none"
    /\ logListener' = FALSE
    /\ mirrorListener' = FALSE
    /\ stderrPipe' = <<>>
    /\ emitted' = <<>>
    /\ logFile' = <<>>
    /\ logError' = None

\* One call of makeRlsProcess, up to its return (lines 80-96, 98 and 135
\* only register callbacks). It is made by the callback of line 153, once
\* the promise of autoUpdate() has resolved.
MakeRlsProcess(o1, o2) ==
    /\ launches < MaxLaunches
    /\ launches < sessions
    /\ autoUpdatePromise = "resolved"
    /\ childProcessPromise # "pending"
    /\ childProcessPromise = "resolved" => returnedPromise = "resolved"
    /\ childProcessPromise = "rejected" => returnedPromise = "rejected"
    /\ LET r == makeRlsEnv(processEnv, o1, o2)
           l == Launch(config.rlsPath, config.rlsRoot, r.env)
       IN /\ processEnv' = r.env
          /\ envCall' = [made |-> TRUE, before |-> processEnv, returned |-> r.env,
                         probes |-> r.probes, results |-> r.results,
                         warnings |-> r.warnings]
          /\ spawnLog' = Append(spawnLog, [call |-> launches + 1] @@ l)
          /\ childProcessPromise' = l.promise
          /\ childAlive' = (l.promise = "resolved")
    /\ envCalls' = envCalls + 1
    /\ launches' = launches + 1
    /\ returnedPromise' = "pending"
    /\ channelArg' = lcOutputChannel
    /\ FreshChild
    /\ UNCHANGED <<config, statusBar, chunksWritten, channel, openLogStreams, sysrootVars,
                   activationVars, updateVars>>

\* runRlsViaRustup's promise resolves with a child process.
RustupResolves ==
    /\ childProcessPromise = "pending"
    /\ childProcessPromise' = "resolved"
    /\ childAlive' = TRUE
    /\ UNCHANGED <<config, launches, spawnLog, returnedPromise, statusBar,
                   errorObserver, errorEvents, stderrVars, envVars, sysrootVars,
                   activationVars, updateVars, channelArg>>

\* runRlsViaRustup's promise rejects: there is no child process.
RustupRejects ==
    /\ childProcessPromise = "pending"
    /\ childProcessPromise' = "rejected"
    /\ UNCHANGED <<config, launches, spawnLog, returnedPromise, statusBar,
                   errorObserver, errorEvents, stderrVars, envVars, sysrootVars, sessionVars>>

\* The callback of childProcessPromise.then (lines 98-133): the observers
\* are attached; the promise returned at line 135 resolves with the child.
ThenCallback ==
    /\ childProcessPromise = "resolved"
    /\ returnedPromise = "pending"
    /\ errorObserver' = TRUE
    /\ logStream' = IF config.logToFile THEN "opening" ELSE logStream
    /\ mirrorListener' = config.showStderrInOutputChannel
    /\ returnedPromise' = "resolved"
    /\ UNCHANGED <<config, launches, spawnLog, childProcessPromise, statusBar,
                   errorEvents, logListener, stderrPipe, emitted, chunksWritten,
                   logFile, channel, logError, openLogStreams, envVars, sysrootVars, sessionVars>>

\* Mutant: the callback of line 135 does not reject (line 137 is missing).
CatchCallbackResolves ==
    /\ childProcessPromise = "rejected"
    /\ returnedPromise = "pending"
    /\ statusBar' = "RLS could not be started"
    /\ returnedPromise' = "resolved"
    /\ UNCHANGED <<config, launches, spawnLog, childProcessPromise, errorObserver,
                   errorEvents, stderrVars, envVars, sysrootVars, sessionVars>>

\* The callback of childProcessPromise.catch (lines 135-138).
CatchCallback ==
    /\ childProcessPromise = "rejected"
    /\ returnedPromise = "pending"
    /\ statusBar' = "RLS could not be started"
    /\ returnedPromise' = "rejected"
    /\ UNCHANGED <<config, launches, spawnLog, childProcessPromise, errorObserver,
                   errorEvents, stderrVars, envVars, sysrootVars, sessionVars>>

-----------------------------------------------------------------------------
(* The 'error' listener of the child (lines 99-106). An 'error' event of   *)
(* a child is emitted from a later tick than the one that obtained the     *)
(* handle, so the listener is attached by then.                            *)

ErrorCodes == {"ENOENT", "EACCES", "EPIPE"}

\* Mutant: the else branch of lines 103-105 is missing.
ErrorObserverSwallows(code) ==
    IF code = "ENOENT"
    THEN [code |-> code, warnings |-> <<"Could not start RLS">>, thrown |-> None]
    ELSE [code |-> code, warnings |-> <<>>, thrown |-> None]

\* What the listener does with err: the warnings it shows and what it throws.
ErrorObserver(code) ==
    IF code = "ENOENT"
    THEN [code |-> code, warnings |-> <<"Could not start RLS">>, thrown |-> None]
    ELSE [code |-> code, warnings |-> <<>>, thrown |-> Some(code)]

ChildError(code) ==
    /\ errorObserver
    /\ Len(errorEvents) < MaxErrors
    /\ errorEvents' = Append(errorEvents, ErrorObserver(code))
    /\ UNCHANGED <<config, launches, spawnLog, childProcessPromise, returnedPromise,
                   statusBar, errorObserver, stderrVars, envVars, sysrootVars, sessionVars>>

-----------------------------------------------------------------------------
(* activate, deactivate and the server options (lines 141-194). The        *)
(* language client calls the server options when it is started, and again  *)
(* when it restarts the server after the connection to the child closed.   *)

DeprecatedEnvWarning ==
    "Found deprecated environment variables (RLS_PATH or RLS_ROOT). Use rls.path or rls.root settings."

\* Mutant: line 165 is missing, lcOutputChannel keeps the null of line 145.
ActivateLeavesChannelNull ==
    /\ activation = "inactive"
    /\ statusBar' = "RLS: starting up"
    /\ activateWarnings' =
          IF Truthy(processEnv, "RLS_PATH") \/ Truthy(processEnv, "RLS_ROOT")
          THEN <<DeprecatedEnvWarning>> ELSE <<>>
    /\ lcOutputChannel' = None
    /\ runningDiagnostics' = 0
    /\ activation' = "active"
    /\ UNCHANGED <<handlersRegistered, lastSpinner, nBegin, nEnd, lastNotification,
                   envVars, sysrootVars, config, launches, spawnLog, childProcessPromise,
                   returnedPromise, errorObserver, errorEvents, stderrVars,
                   updateVars, childVars, cmdVars>>

\* activate (lines 141-173), synchronous: the status bar message, the
\* warning about the environment, the client and its output channel (lines
\* 164-165), the counter of diagnosticCounter (line 197), the start of the
\* client (line 171). The callback of warnOnRlsToml only shows a warning.
Activate ==
    /\ activation = "inactive"
    /\ statusBar' = "RLS: starting up"
    /\ activateWarnings' =
          IF Truthy(processEnv, "RLS_PATH") \/ Truthy(processEnv, "RLS_ROOT")
          THEN <<DeprecatedEnvWarning>> ELSE <<>>
    /\ lcOutputChannel' = Some("lc.outputChannel")
    /\ runningDiagnostics' = 0
    /\ activation' = "active"
    /\ UNCHANGED <<handlersRegistered, lastSpinner, nBegin, nEnd, lastNotification,
                   envVars, sysrootVars, config, launches, spawnLog, childProcessPromise,
                   returnedPromise, errorObserver, errorEvents, stderrVars,
                   updateVars, childVars, cmdVars>>

\* deactivate (lines 175-179): the task provider is disposed of, nothing
\* else; the editor then disposes of the client, which stops the child.
Deactivate ==
    /\ activation = "active"
    /\ activation' = "deactivated"
    /\ UNCHANGED <<trackerVars, envVars, sysrootVars, launchVars, stderrVars, activateWarnings,
                   lcOutputChannel, updateVars, childVars, cmdVars>>

\* Mutant: rustupUpdate() is called and not awaited.
autoUpdateNoAwait(cfg) ==
    IF cfg.updateOnStartup
    THEN [calls |-> 1, update |-> "pending", promise |-> "resolved"]
    ELSE [calls |-> 0, update |-> "none", promise |-> "resolved"]

\* autoUpdate (lines 190-194) up to its return: the calls of rustupUpdate it
\* made, the promise of that call and the promise autoUpdate returns, which
\* is resolved at once when there is nothing to await.
autoUpdate(cfg) ==
    IF cfg.updateOnStartup
    THEN [calls |-> 1, update |-> "pending", promise |-> "pending"]
    ELSE [calls |-> 0, update |-> "none", promise |-> "resolved"]

\* The streams of the child that is gone have emitted what they held.
Drained == (logListener \/ mirrorListener) => stderrPipe = <<>>

\* The server options (line 153) up to their return: autoUpdate() is called
\* and makeRlsProcess is left to the callback of its promise. The client
\* calls them when activate starts it, and to restart the server once the
\* child it had is gone.
ServerOptions ==
    /\ activation = "active"
    /\ sessions < MaxLaunches
    /\ \/ sessions = 0
       \/ /\ launches = sessions
          /\ returnedPromise = "resolved"
          /\ ~childAlive
          /\ Drained
    /\ LET a == autoUpdate(config) IN
        /\ updateCalls' = updateCalls + a.calls
        /\ updatePromise' = a.update
        /\ autoUpdatePromise' = a.promise
    /\ sessions' = sessions + 1
    /\ sessionStart' = [counter |-> runningDiagnostics, spinner |-> lastSpinner.call]
    /\ UNCHANGED <<trackerVars, envVars, sysrootVars, launchVars, stderrVars, activationVars,
                   childVars, cmdVars>>

\* The promise of rustupUpdate() resolves: autoUpdate returns from its await
\* and its promise resolves.
RustupUpdateResolves ==
    /\ updatePromise = "pending"
    /\ updatePromise' = "resolved"
    /\ autoUpdatePromise' = IF autoUpdatePromise = "pending" THEN "resolved"
                            ELSE autoUpdatePromise
    /\ UNCHANGED <<trackerVars, envVars, sysrootVars, launchVars, stderrVars, activationVars,
                   sessions, updateCalls, sessionStart, childVars, cmdVars>>

\* The promise of rustupUpdate() rejects: the await of line 192 throws, no
\* handler is around it, the promise of autoUpdate rejects.
RustupUpdateRejects ==
    /\ updatePromise = "pending"
    /\ updatePromise' = "rejected"
    /\ autoUpdatePromise' = IF autoUpdatePromise = "pending" THEN "rejected"
                            ELSE autoUpdatePromise
    /\ UNCHANGED <<trackerVars, envVars, sysrootVars, launchVars, stderrVars, activationVars,
                   sessions, updateCalls, sessionStart, childVars, cmdVars>>

\* The child process terminates.
ChildExit ==
    /\ childAlive
    /\ childAlive' = FALSE
    /\ UNCHANGED <<trackerVars, envVars, sysrootVars, launchVars, stderrVars, activationVars,
                   updateVars, channelArg, cmdVars>>

-----------------------------------------------------------------------------
(* Standard error of the child: log capture (lines 108-119) and the        *)
(* mirror to the output channel (lines 121-132).                           *)

\* RevealOutputChannelOn.Info of vscode-languageclient, compared at line 127.
RevealInfo == 1
RevealLevels == {1, 2}

\* A chunk is a Buffer: a sequence of bytes. U+00E9 and a newline in UTF-8,
\* and the first byte of U+00E9 alone (the character was cut by the pipe).
Chunks == { <<195, 169, 10>>, <<195>> }

\* Buffer.prototype.toString(), UTF-8 decoding to a sequence of code points,
\* for bytes up to two-byte sequences: a lead byte without a continuation
\* byte, and a continuation byte without a lead, decode to U+FFFD.
IsAscii(b) == b < 128
IsLead2(b) == b >= 192 /\ b < 224
IsCont(b) == b >= 128 /\ b < 192

RECURSIVE Utf8ToString(_)
Utf8ToString(bytes) ==
    IF bytes = <<>> THEN <<>>
    ELSE IF IsAscii(Head(bytes)) THEN <<Head(bytes)>> \o Utf8ToString(Tail(bytes))
    ELSE IF IsLead2(Head(bytes)) /\ Len(bytes) >= 2 /\ IsCont(bytes[2])
    THEN <<(Head(bytes) - 192) * 64 + (bytes[2] - 128)>>
         \o Utf8ToString(Tail(Tail(bytes)))
    ELSE <<65533>> \o Utf8ToString(Tail(bytes))

\* logStream.write(chunk.toString()) (line 113): a write to a stream that
\* has been ended writes nothing.
LogDataListener(stream, file, chunk) ==
    IF stream = "open" THEN Append(file, Utf8ToString(chunk)) ELSE file

\* The mirror (lines 123-130). ref is the lcOutputChannel parameter of
\* makeRlsProcess, ch the state of the channel it refers to.
MirrorDataListener(ref, ch, chunk) ==
    IF IsSome(ref)
    THEN [text |-> Append(ch.text, Utf8ToString(chunk)),
          shows |-> IF config.revealOutputChannelOn <= RevealInfo
                    THEN ch.shows + 1 ELSE ch.shows]
    ELSE ch

\* The child writes a chunk to its standard error.
ChildWritesStderr(chunk) ==
    /\ childProcessPromise = "resolved"
    /\ childAlive
    /\ chunksWritten < MaxChunks
    /\ chunksWritten' = chunksWritten + 1
    /\ emitted' = Append(emitted, chunk)
    /\ stderrPipe' = Append(stderrPipe, chunk)
    /\ UNCHANGED <<launchVars, logStream, logListener, mirrorListener, logFile,
                   channel, logError, openLogStreams, envVars, sysrootVars, sessionVars>>

\* stderr emits 'data': it does so only once it has a 'data' listener (it is
\* paused until then, what the child wrote waits), and every listener it
\* has at that time gets the chunk.
StderrData ==
    /\ logListener \/ mirrorListener
    /\ stderrPipe # <<>>
    /\ stderrPipe' = Tail(stderrPipe)
    /\ logFile' = IF logListener
                  THEN LogDataListener(logStream, logFile, Head(stderrPipe))
                  ELSE logFile
    /\ channel' = IF mirrorListener
                  THEN MirrorDataListener(channelArg, channel, Head(stderrPipe))
                  ELSE channel
    /\ UNCHANGED <<launchVars, logStream, logListener, mirrorListener, emitted,
                   chunksWritten, logError, openLogStreams, envVars, sysrootVars, sessionVars>>

\* The 'open' listener of the log stream (lines 111-115).
LogStreamOpen ==
    /\ logStream = "opening"
    /\ logStream' = "open"
    /\ logListener' = TRUE
    /\ openLogStreams' = openLogStreams + 1
    /\ UNCHANGED <<launchVars, mirrorListener, stderrPipe, emitted, chunksWritten,
                   logFile, channel, logError, envVars, sysrootVars, sessionVars>>

\* Mutant: line 117 is missing, the stream is not ended.
LogStreamErrorKeepsStream ==
    /\ logStream \in {"opening", "open"}
    /\ logStream' = logStream
    /\ logError' = Some([report |-> "console.error", written |-> Len(logFile),
                         listener |-> logListener])
    /\ openLogStreams' = openLogStreams
    /\ UNCHANGED <<launchVars, logListener, mirrorListener, stderrPipe, emitted,
                   chunksWritten, logFile, channel, envVars, sysrootVars, sessionVars>>

\* The 'error' listener of the log stream (lines 115-118): the file could
\* not be opened, or a write failed. The error goes to console.error and the
\* stream is ended; written is what the log file held by then.
LogStreamError ==
    /\ logStream \in {"opening", "open"}
    /\ logStream' = "ended"
    /\ logError' = Some([report |-> "console.error", written |-> Len(logFile),
                         listener |-> logListener])
    /\ openLogStreams' = IF logStream = "open" THEN openLogStreams - 1
                         ELSE openLogStreams
    /\ UNCHANGED <<launchVars, logListener, mirrorListener, stderrPipe, emitted,
                   chunksWritten, logFile, channel, envVars, sysrootVars, sessionVars>>

\* CONFIGURATION: rls.path and rls.root are absent, empty or set.
Configs ==
    [rlsPath : {None, Some(""), Some("/bin/rls")},
     rlsRoot : {None, Some("/rls")},
     updateOnStartup : BOOLEAN,
     logToFile : BOOLEAN,
     showStderrInOutputChannel : BOOLEAN,
     revealOutputChannelOn : RevealLevels]

DefaultConfig ==
    [rlsPath |-> None, rlsRoot |-> None, updateOnStartup |-> TRUE, logToFile |-> FALSE,
     showStderrInOutputChannel |-> FALSE, revealOutputChannelOn |-> 2]

\* No call of the server options yet: no launch, no child.
InitChild ==
    /\ launches = 0
    /\ spawnLog = <<>>
    /\ childProcessPromise = "none"
    /\ returnedPromise = "none"
    /\ errorObserver = FALSE
    /\ errorEvents = <<>>
    /\ logStream = "none"
    /\ logListener = FALSE
    /\ mirrorListener = FALSE
    /\ stderrPipe = <<>>
    /\ emitted = <<>>
    /\ chunksWritten = 0
    /\ logFile = <<>>
    /\ channel = [text |-> <<>>, shows |-> 0]
    /\ logError = None
    /\ openLogStreams = 0
    /\ sessions = 0
    /\ updatePromise = "none"
    /\ autoUpdatePromise = "none"
    /\ updateCalls = 0
    /\ sessionStart = [counter |-> 0, spinner |-> "none"]
    /\ channelArg = None
    /\ childAlive = FALSE

\* Before activate.
InitInactive ==
    /\ InitChild
    /\ statusBar = ""
    /\ activation = "inactive"
    /\ activateWarnings = <<>>
    /\ lcOutputChannel = None

\* After activate (lines 141-173) and before the client asks for the server.
InitLaunch ==
    /\ InitChild
    /\ statusBar = "RLS: starting up"
    /\ activation = "active"
    /\ activateWarnings = <<>>
    /\ lcOutputChannel = Some("lc.outputChannel")

-----------------------------------------------------------------------------
(* registerCommands (lines 212-231): rls.deglob and rls.findImpls. A text  *)
(* is a sequence of words.                                                 *)

Commands == {"rls.deglob", "rls.findImpls"}

\* The reasons a request is rejected with.
Reasons == { <<"timeout">>, <<"connection", "closed">> }

\* The command handler up to its return (lines 214 and 223-224): the
\* requests it sends.
CommandRequests(cmd) ==
    IF cmd = "rls.deglob"
    THEN <<"rustWorkspace/deglob">>
    ELSE <<"rustDocument/implementations">>

\* The first callback given to then (lines 215 and 225-227).
OnFulfilled(cmd) ==
    IF cmd = "rls.deglob"
    THEN [warnings |-> <<>>, executed |-> <<>>]
    ELSE [warnings |-> <<>>, executed |-> <<"editor.action.showReferences">>]

\* Mutant: the warnings do not carry the reason.
OnRejectedDropsReason(cmd, reason) ==
    IF cmd = "rls.deglob"
    THEN [warnings |-> << <<"deglob", "command", "failed:">> >>, executed |-> <<>>]
    ELSE [warnings |-> << <<"find", "implementations", "failed:">> >>,
          executed |-> <<>>]

\* The second callback given to then (lines 216-218 and 227-229).
OnRejected(cmd, reason) ==
    IF cmd = "rls.deglob"
    THEN [warnings |-> << <<"deglob", "command", "failed:">> \o reason >>,
          executed |-> <<>>]
    ELSE [warnings |-> << <<"find", "implementations", "failed:">> \o reason >>,
          executed |-> <<>>]

InitCommands == invocations = <<>>

\* The editor runs a command.
InvokeCommand(cmd) ==
    /\ Len(invocations) < MaxInvocations
    /\ invocations' = Append(invocations,
            [command |-> cmd, requests |-> CommandRequests(cmd), state |-> "pending",
             reason |-> None, warnings |-> <<>>, executed |-> <<>>])

\* The request of invocation i succeeds.
RequestFulfilled(i) ==
    /\ invocations[i].state = "pending"
    /\ LET r == OnFulfilled(invocations[i].command) IN
       invocations' = [invocations EXCEPT
            ![i].state = "fulfilled",
            ![i].warnings = @ \o r.warnings,
            ![i].executed = @ \o r.executed]

\* The request of invocation i is rejected with a reason.
RequestRejected(i, reason) ==
    /\ invocations[i].state = "pending"
    /\ LET r == OnRejected(invocations[i].command, reason) IN
       invocations' = [invocations EXCEPT
            ![i].state = "rejected",
            ![i].reason = Some(reason),
            ![i].warnings = @ \o r.warnings,
            ![i].executed = @ \o r.executed]

\* s occurs in t as a run of consecutive words.
Contains(t, s) == \E k \in 0..(Len(t) - Len(s)) : SubSeq(t, k + 1, k + Len(s)) = s

-----------------------------------------------------------------------------
(* Specifications. Each component is checked alone, the others at rest.    *)

\* The ambient environments the launches start from.
LaunchEnvs ==
    { [PATH |-> "/usr/bin", HOME |-> "/home/u"],
      [PATH |-> "/usr/bin", HOME |-> "/home/u", RUST_SRC_PATH |-> "/src"] }

\* What the probes give during the launches.
LaunchProbeOutcomes == {SpawnError, Exited(0, Some(<<"/", "r", "\n">>))}

EnvAtRest ==
    /\ processEnv = [PATH |-> "/usr/bin", HOME |-> "/home/u"]
    /\ envCalls = 0
    /\ envCall = NoEnvCall

\* Every component in its initial state.
Init ==
    /\ InitTracker
    /\ SysrootAtRest
    /\ InitEnv
    /\ config \in Configs
    /\ InitInactive
    /\ InitCommands

\* The initial states of the component specifications: one component varies
\* over its inputs, the others are at rest.
InitAtRest ==
    /\ InitTracker
    /\ SysrootAtRest
    /\ EnvAtRest
    /\ config = DefaultConfig
    /\ InitLaunch
    /\ InitCommands

InitEnvOnly ==
    /\ InitTracker
    /\ SysrootAtRest
    /\ InitEnv
    /\ config = DefaultConfig
    /\ InitLaunch
    /\ InitCommands

InitLaunchOnly ==
    /\ InitTracker
    /\ SysrootAtRest
    /\ processEnv \in LaunchEnvs
    /\ envCalls = 0
    /\ envCall = NoEnvCall
    /\ config \in {c \in Configs : ~c.updateOnStartup}
    /\ InitInactive
    /\ InitCommands

InitUpdate ==
    /\ InitTracker
    /\ SysrootAtRest
    /\ processEnv \in LaunchEnvs
    /\ envCalls = 0
    /\ envCall = NoEnvCall
    /\ config \in Configs
    /\ InitInactive
    /\ InitCommands

NextTracker ==
    \/ OnReady /\ UNCHANGED <<envVars, sysrootVars, launchVars, stderrVars, sessionVars, cmdVars>>
    \/ BeginBuild /\ UNCHANGED <<envVars, sysrootVars, launchVars, stderrVars, sessionVars, cmdVars>>
    \/ DiagnosticsEnd /\ UNCHANGED <<envVars, sysrootVars, launchVars, stderrVars, sessionVars, cmdVars>>

NextEnv ==
    \E o1, o2 \in ProbeOutcomes :
        MakeRlsEnv(o1, o2)
        /\ UNCHANGED <<trackerVars, sysrootVars, launchVars, stderrVars, sessionVars,
                       cmdVars>>

\* The steps of a launch, up to the settling of the promise it returned.
LaunchSteps ==
    \/ \E o1, o2 \in LaunchProbeOutcomes :
          MakeRlsProcess(o1, o2) /\ UNCHANGED <<trackerVars, cmdVars>>
    \/ RustupResolves /\ UNCHANGED <<trackerVars, cmdVars>>
    \/ RustupRejects /\ UNCHANGED <<trackerVars, cmdVars>>
    \/ ThenCallback /\ UNCHANGED <<trackerVars, cmdVars>>
    \/ CatchCallback /\ UNCHANGED <<trackerVars, cmdVars>>
    \/ Activate
    \/ ServerOptions
    \/ ChildExit

\* The update on startup, and the end of the extension.
UpdateSteps ==
    \/ RustupUpdateResolves
    \/ RustupUpdateRejects
    \/ Deactivate

NextUpdate ==
    \/ LaunchSteps
    \/ UpdateSteps

NextLaunch ==
    \/ LaunchSteps
    \/ \E code \in ErrorCodes : ChildError(code) /\ UNCHANGED <<trackerVars, cmdVars>>

NextStderr ==
    \/ LaunchSteps
    \/ \E chunk \in Chunks : ChildWritesStderr(chunk) /\ UNCHANGED <<trackerVars, cmdVars>>
    \/ StderrData /\ UNCHANGED <<trackerVars, cmdVars>>
    \/ LogStreamOpen /\ UNCHANGED <<trackerVars, cmdVars>>
    \/ LogStreamError /\ UNCHANGED <<trackerVars, cmdVars>>

NextCommands ==
    \/ \E cmd \in Commands :
          InvokeCommand(cmd) /\ UNCHANGED <<trackerVars, envVars, sysrootVars, launchVars, stderrVars, sessionVars>>
    \/ \E i \in DOMAIN invocations :
          RequestFulfilled(i) /\ UNCHANGED <<trackerVars, envVars, sysrootVars, launchVars, stderrVars, sessionVars>>
    \/ \E i \in DOMAIN invocations, reason \in Reasons :
          RequestRejected(i, reason)
          /\ UNCHANGED <<trackerVars, envVars, sysrootVars, launchVars, stderrVars, sessionVars>>

\* The server is up: the client has the child and the child has not
\* terminated. Notifications come from a server that is up.
ServerRunning == childAlive /\ returnedPromise = "resolved"

NextSession ==
    \/ NextUpdate
    \/ ServerRunning /\ OnReady
          /\ UNCHANGED <<envVars, sysrootVars, launchVars, stderrVars, sessionVars, cmdVars>>
    \/ ServerRunning /\ BeginBuild
          /\ UNCHANGED <<envVars, sysrootVars, launchVars, stderrVars, sessionVars, cmdVars>>
    \/ ServerRunning /\ DiagnosticsEnd
          /\ UNCHANGED <<envVars, sysrootVars, launchVars, stderrVars, sessionVars, cmdVars>>

InitSession ==
    /\ InitTracker
    /\ SysrootAtRest
    /\ EnvAtRest
    /\ config = DefaultConfig
    /\ InitInactive
    /\ InitCommands

NextSysroot ==
    GetSysroot
    /\ UNCHANGED <<trackerVars, envVars, launchVars, stderrVars, sessionVars, cmdVars>>

InitSysrootOnly ==
    /\ InitTracker
    /\ InitSysroot
    /\ EnvAtRest
    /\ config = DefaultConfig
    /\ InitLaunch
    /\ InitCommands

Next == NextSysroot \/ NextSession \/ NextEnv \/ NextLaunch \/ NextStderr \/ NextUpdate \/ NextCommands

\* The whole extension.
Spec == Init /\ [][Next]_vars

\* The progress tracker.
SpecTracker == InitAtRest /\ [][NextTracker]_vars

\* getSysroot, on every result of spawnSync.
SpecSysroot == InitSysrootOnly /\ [][NextSysroot]_vars

\* The environment builder, from every ambient environment.
SpecEnv == InitEnvOnly /\ [][NextEnv]_vars

\* The process supervisor, under every configuration: the launches and the
\* 'error' events of the child.
SpecLaunch == InitLaunchOnly /\ [][NextLaunch]_vars

\* The process supervisor, under every configuration: the launches and the
\* standard error of the child.
SpecStderr == InitLaunchOnly /\ [][NextStderr]_vars

\* The server options under every configuration: the update on startup,
\* the launches, the end of the children and of the extension.
SpecUpdate == InitUpdate /\ [][NextUpdate]_vars

\* The progress tracker over the sessions of the client: the notifications
\* of a server, the end of its process, the restart.
SpecSession == InitSession /\ [][NextSession]_vars

\* The command bindings.
SpecCommands == InitAtRest /\ [][NextCommands]_vars

-----------------------------------------------------------------------------
(* Properties of the progress tracker (SpecTracker).                       *)

\* C1: after any interleaving of N beginBuild and N diagnosticsEnd
\* notifications (an end may come before its begin), the busy indicator is
\* idle: the last spinner call is stopSpinner, or none was made.
C1_BalancedPairsIdle == nBegin = nEnd => Idle

\* C2: after B beginBuild and E diagnosticsEnd notifications in any order,
\* the busy indicator is busy if B > E and idle if B <= E.
C2_BusyIffMoreBegins ==
    /\ nBegin > nEnd => Busy
    /\ nBegin <= nEnd => Idle

\* C11: a beginBuild notification adds one to the counter, and its handler
\* calls startSpinner if and only if the increment takes the counter from
\* zero or below to above zero; a beginBuild that finds the counter above
\* zero, or that leaves it at zero or below, makes no spinner call.
C11_BeginEdgeTriggered ==
    lastNotification.kind = "beginBuild" =>
        /\ runningDiagnostics = lastNotification.before + 1
        /\ IsSome(lastNotification.spinner) <=>
              (lastNotification.before <= 0 /\ runningDiagnostics > 0)

\* C12: a diagnosticsEnd notification takes exactly one from the counter,
\* which may go below zero, and its handler calls stopSpinner if and only if
\* the counter is then zero or below; every end handled at zero or below
\* calls stopSpinner again and leaves the indicator idle.
C12_EndDecrementsAndStops ==
    /\ runningDiagnostics = nBegin - nEnd
    /\ lastNotification.kind = "diagnosticsEnd" =>
          /\ runningDiagnostics = lastNotification.before - 1
          /\ IsSome(lastNotification.spinner) <=> runningDiagnostics <= 0
          /\ IsSome(lastNotification.spinner) =>
                /\ Val(lastNotification.spinner).call = "stopSpinner"
                /\ lastSpinner = Val(lastNotification.spinner)
                /\ Idle

\* Two ends in a row below zero: the second found the counter at -1, took it
\* to -2 and called stopSpinner again.
C12_Witness ==
    /\ lastNotification.kind = "diagnosticsEnd"
    /\ lastNotification.before = -1
    /\ runningDiagnostics = -2
    /\ IsSome(lastNotification.spinner)
    /\ Idle

-----------------------------------------------------------------------------
(* Properties of the environment builder (SpecEnv).                        *)

\* C3: when RUST_SRC_PATH is set to a non-empty value in the ambient
\* environment, makeRlsEnv makes no probe, shows no warning and returns an
\* environment in which every variable has its ambient value.
C3_ExplicitOverride ==
    (envCall.made /\ Truthy(envCall.before, "RUST_SRC_PATH")) =>
        /\ envCall.probes = <<>>
        /\ envCall.warnings = <<>>
        /\ envCall.returned = envCall.before
        /\ processEnv = envCall.before

C3_Witness ==
    /\ envCall.made
    /\ Truthy(envCall.before, "RUST_SRC_PATH")
    /\ Has(envCall.before, "PATH")
    /\ envCall.returned = envCall.before

\* C4: whatever the two probes give, makeRlsEnv returns an environment (a
\* mapping of names to strings that still holds every ambient variable), and
\* it shows at most one warning, exactly when both probes failed.
C4_TotalAndWarnsOnce ==
    envCall.made =>
        /\ DOMAIN envCall.before \subseteq DOMAIN envCall.returned
        /\ \A k \in DOMAIN envCall.returned : envCall.returned[k] \in STRING
        /\ Len(envCall.warnings) <= 1
        /\ Len(envCall.warnings) = 1 <=>
              /\ Len(envCall.results) = 2
              /\ IsError(envCall.results[1])
              /\ IsError(envCall.results[2])

C4_Witness ==
    /\ envCall.made
    /\ Len(envCall.results) = 2
    /\ IsError(envCall.results[1])
    /\ IsError(envCall.results[2])
    /\ envCall.warnings = <<SysrootWarning>>

\* C5: when RUST_SRC_PATH is not set, the probe is run once on the ambient
\* environment; it is run a second time exactly when the first run failed,
\* then with (HOME or ~)/.cargo/bin: put before PATH; it is never run a third
\* time. RUST_SRC_PATH is the root of the run that succeeded followed by
\* /lib/rustlib/src/rust/src, and is left as it was, unset, if both failed.
C5_RetryProtocol ==
    (envCall.made /\ ~Truthy(envCall.before, "RUST_SRC_PATH")) =>
        LET before == envCall.before
            n == Len(envCall.probes)
            home == IF Has(before, "HOME") /\ before["HOME"] # ""
                    THEN before["HOME"] ELSE "~"
            path == IF Has(before, "PATH") THEN before["PATH"] ELSE ""
            last == envCall.results[n]
        IN /\ n \in {1, 2}
           /\ Len(envCall.results) = n
           /\ envCall.probes[1] = before
           /\ n = 2 <=> IsError(envCall.results[1])
           /\ n = 2 =>
                 /\ Get(envCall.probes[2], "PATH")
                      = Some(home \o "/.cargo/bin:" \o path)
                 /\ \A k \in DOMAIN before \ {"PATH"} :
                       envCall.probes[2][k] = before[k]
           /\ IF IsError(last)
              THEN /\ ~Truthy(envCall.returned, "RUST_SRC_PATH")
                   /\ Get(envCall.returned, "RUST_SRC_PATH")
                        = Get(before, "RUST_SRC_PATH")
              ELSE Get(envCall.returned, "RUST_SRC_PATH")
                        = Some(last.value \o "/lib/rustlib/src/rust/src")

C5_Witness ==
    /\ envCall.made
    /\ ~Has(envCall.before, "RUST_SRC_PATH")
    /\ ~Has(envCall.before, "HOME")
    /\ Len(envCall.probes) = 2
    /\ envCall.probes[2]["PATH"] = "~/.cargo/bin:/usr/bin"
    /\ envCall.returned["RUST_SRC_PATH"] = "/r/lib/rustlib/src/rust/src"

-----------------------------------------------------------------------------
(* Properties of the process supervisor (SpecLaunch, SpecStderr).          *)

\* C6: every call of makeRlsProcess makes exactly one launch attempt: a
\* spawn of rls.path without arguments if rls.path is set; otherwise, if
\* rls.root is set, a spawn of rustup with rls.root as working directory;
\* otherwise a call of runRlsViaRustup.
C6_LaunchPriority ==
    /\ Len(spawnLog) = launches
    /\ \A i \in DOMAIN spawnLog :
         LET a == spawnLog[i] IN
         /\ a.call = i
         /\ IF IsSome(config.rlsPath) /\ Val(config.rlsPath) # ""
            THEN /\ a.via = "child_process.spawn"
                 /\ a.command = Val(config.rlsPath)
                 /\ a.args = <<>>
                 /\ a.cwd = None
            ELSE IF IsSome(config.rlsRoot) /\ Val(config.rlsRoot) # ""
            THEN /\ a.via = "child_process.spawn"
                 /\ a.command = "rustup"
                 /\ a.cwd = config.rlsRoot
            ELSE a.via = "runRlsViaRustup"

C6_Witness ==
    /\ launches = 2
    /\ config.rlsPath = Some("/bin/rls")
    /\ config.rlsRoot = Some("/rls")
    /\ spawnLog[2].command = "/bin/rls"

\* C7: an 'error' event of the child with code ENOENT shows exactly one
\* warning and throws nothing; an 'error' event with another code shows no
\* warning and throws the error again.
C7_ErrorObserver ==
    \A i \in DOMAIN errorEvents :
        LET e == errorEvents[i] IN
        IF e.code = "ENOENT"
        THEN Len(e.warnings) = 1 /\ e.thrown = None
        ELSE e.warnings = <<>> /\ e.thrown = Some(e.code)

C7_Witness ==
    /\ Len(errorEvents) = 2
    /\ errorEvents[1].code = "ENOENT"
    /\ errorEvents[2].code = "EACCES"
    /\ errorEvents[2].thrown = Some("EACCES")

\* C8: when the launch promise rejects, no observer is attached, no second
\* launch attempt is made by the call and, once the catch callback has run,
\* the status message is 'RLS could not be started' and the promise given to
\* the caller is rejected.
C8_LaunchFailure ==
    childProcessPromise = "rejected" =>
        /\ ~errorObserver
        /\ logStream = "none"
        /\ ~logListener
        /\ ~mirrorListener
        /\ Cardinality({i \in DOMAIN spawnLog : spawnLog[i].call = launches}) = 1
        /\ returnedPromise # "pending" =>
              /\ statusBar = "RLS could not be started"
              /\ returnedPromise = "rejected"

C8_Witness ==
    /\ childProcessPromise = "rejected"
    /\ returnedPromise = "rejected"
    /\ statusBar = "RLS could not be started"
    /\ config.logToFile
    /\ config.showStderrInOutputChannel

\* C9: when log capture is enabled and the log file opened without error,
\* every chunk the child wrote to standard error is in the log file, in the
\* order written, once standard error has emitted all of them, whether or
\* not the mirror is enabled and whether the chunk came before or after the
\* 'open' event of the log stream.
C9_LogCaptureComplete ==
    (config.logToFile /\ logStream = "open" /\ stderrPipe = <<>>) =>
        logFile = [i \in DOMAIN emitted |-> Utf8ToString(emitted[i])]

-----------------------------------------------------------------------------
(* Properties of the command bindings (SpecCommands).                      *)

\* C10: every invocation of rls.deglob or rls.findImpls sends exactly one
\* request; if the request is rejected with a reason, exactly one warning
\* is shown, its text contains the reason, and no command is executed; if
\* the request succeeds, no warning is shown.
C10_CommandBindings ==
    \A i \in DOMAIN invocations :
        LET v == invocations[i] IN
        /\ Len(v.requests) = 1
        /\ v.state = "rejected" =>
              /\ Len(v.warnings) = 1
              /\ Contains(v.warnings[1], Val(v.reason))
              /\ v.executed = <<>>
        /\ v.state = "fulfilled" => v.warnings = <<>>

C10_Witness ==
    \E i, j \in DOMAIN invocations :
        /\ invocations[i].command = "rls.findImpls"
        /\ invocations[i].state = "rejected"
        /\ invocations[i].reason = Some(<<"timeout">>)
        /\ invocations[j].command = "rls.findImpls"
        /\ invocations[j].state = "fulfilled"
        /\ invocations[j].executed = <<"editor.action.showReferences">>

-----------------------------------------------------------------------------
(* Properties of the server options (SpecUpdate).                          *)

\* C13: with updateOnStartup enabled, every call of the server options
\* calls rustupUpdate, and makeRlsProcess makes no probe and no spawn
\* attempt for that call before the update has completed; with
\* updateOnStartup disabled, the launch path never calls rustupUpdate.
C13_UpdateBeforeSpawn ==
    /\ envCalls = launches
    /\ Len(spawnLog) = launches
    /\ launches <= sessions
    /\ config.updateOnStartup =>
          /\ updateCalls = sessions
          /\ updatePromise = "pending" => launches < sessions
          /\ (sessions > 0 /\ launches = sessions) =>
                updatePromise \in {"resolved", "rejected"}
    /\ ~config.updateOnStartup =>
          /\ updateCalls = 0
          /\ updatePromise = "none"

\* Two sessions with the update enabled: each one updated, then launched.
C13_Witness ==
    /\ config.updateOnStartup
    /\ updateCalls = 2
    /\ launches = 2
    /\ Len(envCall.probes) > 0
    /\ updatePromise = "resolved"

\* C14: with updateOnStartup enabled, once the promise of rustupUpdate has
\* rejected the launch goes on: the promise of autoUpdate is resolved, so
\* that the callback calling makeRlsProcess runs, or the call is made.
C14_UpdateFailureDegrades ==
    (config.updateOnStartup /\ updatePromise = "rejected") =>
        (autoUpdatePromise = "resolved" \/ launches = sessions)

\* C15: when the client calls the server options again to restart the
\* server, the progress counter is at zero and the indicator idle, whatever
\* notifications the session before handled.
C15_TrackerFreshPerSession ==
    sessions >= 2 =>
        /\ sessionStart.counter = 0
        /\ sessionStart.spinner # "startSpinner"

-----------------------------------------------------------------------------
(* The ambient environment (SpecEnv).                                      *)

\* C16: makeRlsEnv does not change the ambient environment: once a call has
\* returned, PATH and RUST_SRC_PATH of process.env are what they were before
\* the call, so PATH does not grow from one launch to the next.
C16_AmbientEnvUnchanged ==
    envCall.made =>
        /\ Get(processEnv, "PATH") = Get(envCall.before, "PATH")
        /\ Get(processEnv, "RUST_SRC_PATH") = Get(envCall.before, "RUST_SRC_PATH")

-----------------------------------------------------------------------------
(* The log stream over the life of the children (SpecStderr).              *)

\* C17: the log stream opened for a child is ended once that child has
\* terminated: over launches, exits and relaunches, the log streams that are
\* open and not ended are never more than the children that are alive.
C17_LogStreamsFollowChildren ==
    openLogStreams <= IF childAlive THEN 1 ELSE 0

\* C18: once the log stream has emitted 'error', the error has been
\* reported on the console, the stream is ended and nothing more is written
\* to it, whether or not the 'open' listener had attached the 'data'
\* listener to stderr; the launch stays resolved, nothing is thrown.
C18_LogErrorDisablesLogging ==
    IsSome(logError) =>
        /\ Val(logError).report = "console.error"
        /\ logStream = "ended"
        /\ Len(logFile) = Val(logError).written
        /\ returnedPromise = "resolved"

\* The stream failed after 'open' with one chunk written; stderr has since
\* emitted a second chunk to the 'data' listener, and the log did not grow.
C18_Witness ==
    /\ IsSome(logError)
    /\ Val(logError).listener
    /\ Val(logError).written = 1
    /\ logListener
    /\ ~config.showStderrInOutputChannel
    /\ Len(emitted) = 2
    /\ stderrPipe = <<>>
    /\ Len(logFile) = 1

Decoded(chunks) == [i \in DOMAIN chunks |-> Utf8ToString(chunks[i])]

\* C19: makeRlsProcess is never handed a null output channel. With
\* showStderrInOutputChannel enabled, what the channel holds is the decoded
\* text of every chunk stderr has emitted, once each and in order, and show
\* was called after a chunk if and only if revealOutputChannelOn is at most
\* Info; with it disabled nothing is appended and show is never called.
C19_StderrMirror ==
    /\ launches > 0 => IsSome(channelArg)
    /\ config.showStderrInOutputChannel =>
          LET n == Len(emitted) - Len(stderrPipe)
              k == Len(channel.text)
          IN /\ k + Len(stderrPipe) = chunksWritten
             /\ n <= k
             /\ SubSeq(channel.text, k - n + 1, k) = Decoded(SubSeq(emitted, 1, n))
             /\ channel.shows = IF config.revealOutputChannelOn <= RevealInfo
                                THEN k ELSE 0
    /\ ~config.showStderrInOutputChannel => channel = [text |-> <<>>, shows |-> 0]

\* Two children, one chunk each, both mirrored and shown.
C19_Witness ==
    /\ config.showStderrInOutputChannel
    /\ config.revealOutputChannelOn = RevealInfo
    /\ launches = 2
    /\ Len(emitted) = 1
    /\ Len(channel.text) = 2
    /\ channel.text[1] # channel.text[2]
    /\ channel.shows = 2

-----------------------------------------------------------------------------
(* getSysroot (SpecSysroot).                                               *)

\* C20: getSysroot fails when the command could not be started, else when
\* it exited with a status above zero, else when it gave no output, an
\* output of length zero included; otherwise it returns the output without
\* the line ends it ends with, every other character in place: the first
\* n characters, where everything after the n-th is a line end and the
\* n-th is not.
C20_SysrootResult ==
    IsSome(sysroot) =>
        LET r == Val(sysroot)
            o == spawnSyncResult
            LineEnds == {"\n", "\r"}
            Stripped(s) ==
                LET n == CHOOSE k \in 0..Len(s) :
                            /\ k = 0 \/ s[k] \notin LineEnds
                            /\ \A j \in (k + 1)..Len(s) : s[j] \in LineEnds
                IN SubSeq(s, 1, n)
        IN IF o.error
           THEN IsError(r) /\ r.message = "Error running rustc"
           ELSE IF IsSome(o.status) /\ Val(o.status) > 0
           THEN IsError(r) /\ r.message = "Error getting sysroot from rustc"
           ELSE IF ~IsSome(o.stdout) \/ Val(o.stdout) = <<>>
           THEN IsError(r)
           ELSE /\ r.tag = "string"
                /\ r.value = Join(Stripped(Val(o.stdout)))

=============================================================================
